---- MODULE Spec2Model ----
(***************************************************************************)
(* leptos-mdx: the Mdx component and process_element (src/src/mdx.rs),     *)
(* with the parse front end of src/src/markdown.rs.                        *)
(*                                                                         *)
(* A render is modelled step by step: the recursion of process_element is  *)
(* an explicit call stack, one frame per active call.  Strings that the    *)
(* code inspects character by character (raw text, attribute values) are   *)
(* sequences of one-character strings.                                     *)
(***************************************************************************)
EXTENDS Naturals, Sequences, FiniteSets

VARIABLES
    components,  \* Components.components: registered name -> boxed closure
    regs,        \* history: the registrations made so far, in call order
    pc,          \* "idle" | "running" | "done" | "panicked"
    entry,       \* "none" | "Mdx" | "process_element": the public call being served
    source,      \* the source given to Mdx (None before the call)
    dom,         \* the root-level nodes of the parsed document
    root_flag,   \* parse_new_lines of the outermost process_element call
    root_next,   \* Mdx: index of the next root node of the for loop
    root_views,  \* Mdx: the vector root_views
    stack,       \* active process_element calls, outermost first
    result,      \* what the public call gave its caller
    stdout,      \* lines written by println!
    trace        \* history: what happened, in order

vars == <<components, regs, pc, entry, source, dom, root_flag, root_next,
          root_views, stack, result, stdout, trace>>

-----------------------------------------------------------------------------
(* Bounds *)

\* registrations made on one registry before it is handed to Mdx
MaxRegs == 2
\* length of the raw texts drawn for direct calls of process_element
MaxLen == 5

-----------------------------------------------------------------------------
(* Values *)

None == [kind |-> "None"]
Some(v) == [kind |-> "Some", value |-> v]

NL == "\n"
\* the replacement text the closure of replace_all puts between the two groups
BR == " <br /> "
SP == " "

RECURSIVE SeqsUpTo(_, _)
\* every sequence over S of length at most n
SeqsUpTo(S, n) ==
    IF n = 0 THEN {<<>>}
    ELSE LET shorter == SeqsUpTo(S, n - 1)
         IN  shorter \cup {Append(s, c) : s \in {x \in shorter : Len(x) = n - 1}, c \in S}

-----------------------------------------------------------------------------
(* process_element, Node::Raw: the regular expression (.+)\n(.+) *)

RECURSIVE LineEnd(_, _)
\* t[i] is not a newline: the index of the last character of the greedy (.+) from i
LineEnd(t, i) ==
    IF i < Len(t) /\ t[i + 1] # NL THEN LineEnd(t, i + 1) ELSE i

\* a faulty variant: the first group may be empty, as in (.*)\n(.+)
MatchAtEmptyFirstGroup(t, s) ==
    LET e == IF t[s] = NL THEN s - 1 ELSE LineEnd(t, s)
    IN  e + 2 <= Len(t) /\ t[e + 1] = NL /\ t[e + 2] # NL

\* (.+)\n(.+) matches at position s: "." is any character but the newline, so
\* the first group is the rest of the line of s, and a non-empty line follows
MatchAt(t, s) ==
    /\ t[s] # NL
    /\ LET e == LineEnd(t, s)
       IN  e + 2 <= Len(t) /\ t[e + 1] = NL /\ t[e + 2] # NL

\* the end of the first group of a match at s
Group1End(t, s) == IF t[s] = NL THEN s - 1 ELSE LineEnd(t, s)

RECURSIVE replace_all(_, _)
\* Regex::replace_all from position i: leftmost matches, none overlapping; the
\* search resumes after the end of the previous match
replace_all(t, i) ==
    IF i > Len(t) THEN <<>>
    ELSE IF MatchAt(t, i)
         THEN LET e1 == Group1End(t, i)
                  e2 == LineEnd(t, e1 + 2)
              IN  SubSeq(t, i, e1) \o <<BR>> \o SubSeq(t, e1 + 2, e2)
                      \o replace_all(t, e2 + 1)
         ELSE <<t[i]>> \o replace_all(t, i + 1)

\* the view of a string: a text node
TextView(t) == [kind |-> "Text", content |-> t]
\* ().into_view()
UnitView == [kind |-> "Unit"]

\* Node::Raw(raw) arm
ProcessRaw(raw, parse_new_lines) ==
    IF raw.utf8
    THEN IF parse_new_lines THEN TextView(replace_all(raw.text, 1))
                            ELSE TextView(raw.text)
    ELSE UnitView

-----------------------------------------------------------------------------
(* The parsed document: tl::Node and tl::Attributes as the code reads them *)

Comment == [kind |-> "Comment"]
Raw(t) == [kind |-> "Raw", text |-> t, utf8 |-> TRUE]
\* raw bytes that String::from_utf8 rejects
RawInvalid == [kind |-> "Raw", text |-> <<>>, utf8 |-> FALSE]
Tag(name, attributes, children) ==
    [kind |-> "Tag", name |-> name, attributes |-> attributes, children |-> children]

\* tl keeps id and class apart from the other attributes; a value is Some or None
Attrs(id, class, raw) == [id |-> id, class |-> class, raw |-> raw]
NoAttrs == Attrs(None, None, <<>>)

RECURSIVE NodeAt(_, _)
\* the node at path p (child indices from the root level down) of the nodes ns
NodeAt(ns, p) ==
    IF Len(p) = 1 THEN ns[p[1]] ELSE NodeAt(ns[p[1]].children, Tail(p))

RECURSIVE PathsOf(_, _)
\* the paths of all nodes below prefix p, ns being the children there
PathsOf(ns, p) ==
    UNION {{Append(p, i)} \cup
           (IF ns[i].kind = "Tag" THEN PathsOf(ns[i].children, Append(p, i)) ELSE {})
           : i \in 1..Len(ns)}

IsProperPrefix(p, q) == Len(p) < Len(q) /\ SubSeq(q, 1, Len(p)) = p

-----------------------------------------------------------------------------
(* Attribute extraction, shared by the component path and html_element *)

\* attributes.id().map(..)
AttrId(attributes) == attributes.id

RECURSIVE SplitWhitespace(_)
\* str::split_ascii_whitespace: the maximal runs of non-space characters
SplitWhitespace(s) ==
    IF s = <<>> THEN <<>>
    ELSE IF Head(s) = SP THEN SplitWhitespace(Tail(s))
    ELSE LET rest == SplitWhitespace(Tail(s))
         IN  IF Len(s) > 1 /\ s[2] # SP
             THEN <<(<<Head(s)>> \o Head(rest))>> \o Tail(rest)
             ELSE <<(<<Head(s)>>)>> \o rest

\* a faulty variant: the class value taken whole, as one token
ClassesUnsplit(attributes) ==
    IF attributes.class = None THEN <<>> ELSE <<attributes.class.value>>

\* attributes.class_iter().map_or(Vec::new(), |l| l.map(..).collect())
Classes(attributes) ==
    IF attributes.class = None THEN <<>> ELSE SplitWhitespace(attributes.class.value)

\* the names attributes.iter() yields: the raw map, then id and class when set
AttrNames(attributes) ==
    DOMAIN attributes.raw
        \cup (IF attributes.id = None THEN {} ELSE {"id"})
        \cup (IF attributes.class = None THEN {} ELSE {"class"})

\* attributes.iter().map(..).collect(): name -> optional value
AttributesMap(attributes) ==
    [k \in AttrNames(attributes) |->
        IF k = "id" /\ attributes.id # None THEN attributes.id
        ELSE IF k = "class" /\ attributes.class # None THEN attributes.class
        ELSE attributes.raw[k]]

RECURSIVE Join(_, _)
\* [String]::join(sep)
Join(tokens, sep) ==
    IF tokens = <<>> THEN <<>>
    ELSE IF Len(tokens) = 1 THEN tokens[1]
    ELSE tokens[1] \o <<sep>> \o Join(Tail(tokens), sep)

-----------------------------------------------------------------------------
(* html_element *)

\* HtmlElement::attr / ::id: set one attribute of the element
SetAttr(el, k, v) ==
    [el EXCEPT !.attrs = [n \in DOMAIN el.attrs \cup {k} |->
                              IF n = k THEN v ELSE el.attrs[n]]]

\* for (k, v) in attributes_map { if let Some(v) = v { attr(k, v) } }: the map
\* holds each name once, so the order of the HashMap's iteration does not show
ApplyAttributes(el, attributes_map) ==
    LET present == {k \in DOMAIN attributes_map : attributes_map[k] # None}
    IN  [el EXCEPT !.attrs = [n \in DOMAIN el.attrs \cup present |->
                                  IF n \in present THEN attributes_map[n].value
                                  ELSE el.attrs[n]]]

\* a faulty variant: the class tokens are not joined back over the raw class value
html_element_raw_class(element, children, tag) ==
    LET attributes == element.attributes
        id == AttrId(attributes)
        e0 == [kind |-> "Element", tag |-> tag, attrs |-> <<>>, children |-> <<>>]
        e1 == IF id # None THEN SetAttr(e0, "id", id.value) ELSE e0
        e2 == ApplyAttributes(e1, AttributesMap(attributes))
    IN  [e2 EXCEPT !.children = children]

html_element(element, children, tag) ==
    LET attributes == element.attributes
        id == AttrId(attributes)
        attributes_map == AttributesMap(attributes)
        classes == Classes(attributes)
        e0 == [kind |-> "Element", tag |-> tag, attrs |-> <<>>, children |-> <<>>]
        e1 == IF id # None THEN SetAttr(e0, "id", id.value) ELSE e0
        e2 == ApplyAttributes(e1, attributes_map)
        e3 == IF classes # <<>> THEN SetAttr(e2, "class", Join(classes, SP)) ELSE e2
    IN  [e3 EXCEPT !.children = children]

\* the tags of the match in process_element that have a leptos constructor
BuiltinTags ==
    {"html", "base", "head", "link", "meta", "style", "title", "body", "address",
     "article", "aside", "footer", "header", "hgroup", "h1", "h2", "h3", "h4", "h5",
     "h6", "main", "nav", "section", "blockquote", "dd", "div", "dl", "dt",
     "figcaption", "figure", "hr", "li", "ol", "p", "pre", "ul", "a", "abbr", "b",
     "bdi", "bdo", "br", "cite", "code", "data", "dfn", "em", "i", "kbd", "mark", "q",
     "rp", "rt", "ruby", "s", "samp", "small", "span", "strong", "sub", "sup", "time",
     "u", "var", "wbr", "area", "audio", "img", "map", "track", "video", "embed",
     "iframe", "object", "param", "picture", "portal", "source", "svg", "math",
     "canvas", "noscript", "script", "del", "ins", "caption", "col", "colgroup",
     "table", "tbody", "td", "tfoot", "th", "thead", "tr", "button", "datalist",
     "fieldset", "form", "input", "label", "legend", "meter", "optgroup", "option",
     "output", "progress", "select", "textarea", "details", "dialog", "menu",
     "summary", "slot", "template"}

-----------------------------------------------------------------------------
(* Components *)

\* Fragment::new(views)
Fragment(views) == [kind |-> "Fragment", nodes |-> views]

\* The components and adapters a caller registers are the caller's code.  Two
\* stand for them: Hello takes no props and renders a fixed view; Wrap takes the
\* props and renders them around the children it asks its producer for, once.
NoPropsComponents == {"Hello"}
PropsComponents == {"Wrap"}
IdentityAdapter == "identity"

\* the closure add boxes: move |_| component().into_view()
AddClosure(component) == [form |-> "add", component |-> component]
\* the closure add_props boxes: move |props| component(props_adapter(props)).into_view()
AddPropsClosure(component, props_adapter) ==
    [form |-> "add_props", component |-> component, props_adapter |-> props_adapter]

\* calling a boxed closure with the MdxComponentProps
Invoke(closure, props) ==
    IF closure.form = "add"
    THEN [kind |-> "Component", component |-> closure.component]
    ELSE [kind |-> "Component", component |-> closure.component,
          id |-> props.id, classes |-> props.classes,
          attributes |-> props.attributes,
          children |-> props.children.yields]

\* a faulty variant: entry(name).or_insert(..), the first registration kept
InsertIfAbsent(map, name, closure) ==
    [n \in DOMAIN map \cup {name} |-> IF n \in DOMAIN map THEN map[n] ELSE closure]

\* HashMap::insert
Insert(map, name, closure) ==
    [n \in DOMAIN map \cup {name} |-> IF n = name THEN closure ELSE map[n]]

\* Components::get
Get(map, name) == IF name \in DOMAIN map THEN Some(map[name]) ELSE None

\* the MdxComponentProps process_element builds for a registered tag
MdxComponentProps(tag, child_views) ==
    [id |-> AttrId(tag.attributes),
     classes |-> Classes(tag.attributes),
     attributes |-> AttributesMap(tag.attributes),
     children |-> [kind |-> "Producer", yields |-> Fragment(child_views)]]

\* a faulty variant: every child gets the flag of its parent
ChildFlagInherited(name, parse_new_lines) == parse_new_lines

\* the parse_new_lines a child of the tag `name` is processed with
ChildFlag(name, parse_new_lines) ==
    IF name = "code" \/ name = "pre" THEN FALSE ELSE parse_new_lines

-----------------------------------------------------------------------------
(* markdown::parse and tl::parse, as Mdx sees them *)

Ok(v) == [kind |-> "Ok", value |-> v]
Err(e) == [kind |-> "Err", error |-> e]

\* a faulty variant: a front-matter error is swallowed and the content rendered all the same
parse_lenient(src) == Ok([well_formed |-> src.html_ok, nodes |-> src.nodes])

\* markdown::parse: extract_frontmatter(source)? and then md_to_html, which cannot fail
parse(src) ==
    IF src.frontmatter = "malformed" THEN Err("frontmatter")
    ELSE Ok([well_formed |-> src.html_ok, nodes |-> src.nodes])

\* tl::parse(&html, ..): the root-level nodes, or an error
tl_parse(html) == IF html.well_formed THEN Ok(html.nodes) ELSE Err("html")

\* a panic of the public call (Result::expect on an Err)
Panic(msg) == [kind |-> "Panic", message |-> msg]

-----------------------------------------------------------------------------
(* The documents rendered *)

T_a == <<"a">>
T_b == <<"b">>
T_ab == <<"a", NL, "b">>

Element(name, children) == Tag(name, NoAttrs, children)

\* nestings of up to three elements around one text with an interior newline
ChainTags == {"div", "code", "pre", "Widget"}
ChainDocs ==
    {<<Element(t1, <<Raw(T_ab)>>)>> : t1 \in ChainTags}
    \cup {<<Element(t1, <<Element(t2, <<Raw(T_ab)>>)>>)>> : t1 \in ChainTags, t2 \in ChainTags}
    \cup {<<Element(t1, <<Element(t2, <<Element(t3, <<Raw(T_ab)>>)>>)>>)>> :
             t1 \in ChainTags, t2 \in ChainTags, t3 \in ChainTags}
    \cup {<<Element("code", <<Raw(T_ab)>>), Element("p", <<Raw(T_ab)>>)>>}

\* siblings at the root level and below one element
Leaves ==
    {Comment, Raw(T_ab), Element("foo-bar", <<Raw(T_a)>>), Element("span", <<Raw(T_b)>>)}
SiblingDocs ==
    {<<x, y, z>> : x \in Leaves, y \in Leaves, z \in Leaves}
    \cup {<<Element(t, <<x, y>>)>> : t \in {"div", "Widget"}, x \in Leaves, y \in Leaves}

\* attributes: id, class with runs of spaces, valueless attributes
AttrSets ==
    {NoAttrs,
     Attrs(Some(<<"a">>), Some(<<"x", SP, SP, "y">>),
           [k \in {"title", "hidden"} |-> IF k = "title" THEN Some(<<"t">>) ELSE None]),
     Attrs(None, Some(<<SP, SP>>), <<>>),
     Attrs(None, Some(<<SP, "x", SP>>), [k \in {"open"} |-> None]),
     Attrs(Some(<<"b">>), None, [k \in {"lang"} |-> Some(<<"e">>)]),
     Attrs(None, Some(<<"y", SP, "x", SP, "y">>), <<>>)}
AttrDocs ==
    {<<Tag(t, a, <<Element("span", <<Raw(T_a)>>)>>)>> : t \in {"p", "Widget", "code"}, a \in AttrSets}

\* unknown tags below unknown tags and below components; a name in another case
NestedDocs ==
    {<<>>,
     <<Element("foo-bar", <<Element("x-y", <<Raw(T_a)>>), Raw(T_b)>>), Raw(T_ab)>>,
     <<Element("Widget", <<Element("foo-bar", <<Element("x-y", <<>>)>>)>>)>>,
     <<Element("widget", <<Raw(T_a)>>), Element("Widget", <<Raw(T_a)>>)>>,
     <<Element("pre", <<Element("code", <<Raw(T_ab), Comment>>)>>), Comment>>}

Documents == ChainDocs \cup SiblingDocs \cup AttrDocs \cup NestedDocs

\* a source: whether its front matter parses, whether its HTML parses, and the
\* nodes of its HTML
Source(fm, html_ok, nodes) == [frontmatter |-> fm, html_ok |-> html_ok, nodes |-> nodes]
BadSources ==
    {Source("malformed", TRUE, <<Element("p", <<Raw(T_a)>>)>>),
     Source("ok", FALSE, <<Element("p", <<Raw(T_a)>>)>>)}
Sources == {Source("ok", TRUE, d) : d \in Documents} \cup BadSources

\* the names and components the caller registers
RegNames == {"Widget", "code"}

-----------------------------------------------------------------------------
(* State *)

Init ==
    /\ components = <<>>
    /\ regs = <<>>
    /\ pc = "idle"
    /\ entry = "none"
    /\ source = None
    /\ dom = <<>>
    /\ root_flag = TRUE
    /\ root_next = 1
    /\ root_views = <<>>
    /\ stack = <<>>
    /\ result = None
    /\ stdout = <<>>
    /\ trace = <<>>

render_vars == <<pc, entry, source, dom, root_flag, root_next, root_views, stack,
                 result, stdout, trace>>

\* Components::add; Mdx takes the registry by value, so every registration precedes it
add(name, component) ==
    /\ pc = "idle"
    /\ Len(regs) < MaxRegs
    /\ components' = Insert(components, name, AddClosure(component))
    /\ regs' = Append(regs, [name |-> name, closure |-> AddClosure(component)])
    /\ UNCHANGED render_vars

\* Components::add_props
add_props(name, component, props_adapter) ==
    /\ pc = "idle"
    /\ Len(regs) < MaxRegs
    /\ components' = Insert(components, name, AddPropsClosure(component, props_adapter))
    /\ regs' = Append(regs, [name |-> name,
                             closure |-> AddPropsClosure(component, props_adapter)])
    /\ UNCHANGED render_vars

\* Mdx up to its for loop: both parsers, each under expect
Mdx(src) ==
    /\ pc = "idle"
    /\ entry' = "Mdx"
    /\ source' = src
    /\ root_flag' = TRUE
    /\ LET parsed == parse(src)
       IN  IF parsed.kind = "Err"
           THEN /\ pc' = "panicked"
                /\ result' = Panic("invalid mdx")
                /\ UNCHANGED dom
           ELSE LET html == tl_parse(parsed.value)
                IN  IF html.kind = "Err"
                    THEN /\ pc' = "panicked"
                         /\ result' = Panic("invalid html")
                         /\ UNCHANGED dom
                    ELSE /\ pc' = "running"
                         /\ dom' = html.value
                         /\ UNCHANGED result
    /\ UNCHANGED <<components, regs, root_next, root_views, stack, stdout, trace>>

Frame(node, path, parse_new_lines) ==
    [node |-> node, path |-> path, flag |-> parse_new_lines, next |-> 1, child_views |-> <<>>]

Top == stack[Len(stack)]

\* a faulty variant: the view is put in front of the vector
PushFront(views, view) == <<view>> \o views

\* Vec::push
Push(views, view) == Append(views, view)

\* the call on top of the stack returns view, after the events evs: the view goes to
\* the child_views of the calling process_element, to the root_views of Mdx, or to
\* the caller of a direct call
Return(view, evs) ==
    /\ trace' = trace \o evs \o <<[ev |-> "return", path |-> Top.path, view |-> view]>>
    /\ IF Len(stack) > 1
       THEN /\ stack' = [SubSeq(stack, 1, Len(stack) - 1) EXCEPT
                            ![Len(stack) - 1].child_views = Push(@, view),
                            ![Len(stack) - 1].next = @ + 1]
            /\ UNCHANGED <<pc, root_next, root_views, result>>
       ELSE /\ stack' = <<>>
            /\ IF entry = "Mdx"
               THEN /\ root_views' = Push(root_views, view)
                    /\ root_next' = root_next + 1
                    /\ UNCHANGED <<pc, result>>
               ELSE /\ result' = view
                    /\ pc' = "done"
                    /\ UNCHANGED <<root_next, root_views>>

\* Mdx: one iteration of the for loop calls process_element(node, .., true)
MdxCallRoot ==
    /\ pc = "running" /\ entry = "Mdx" /\ stack = <<>>
    /\ root_next <= Len(dom)
    /\ stack' = <<Frame(dom[root_next], <<root_next>>, root_flag)>>
    /\ trace' = Append(trace, [ev |-> "enter", path |-> <<root_next>>, flag |-> root_flag])
    /\ UNCHANGED <<components, regs, pc, entry, source, dom, root_flag, root_next,
                   root_views, result, stdout>>

\* Mdx: Fragment::new(root_views)
MdxReturn ==
    /\ pc = "running" /\ entry = "Mdx" /\ stack = <<>>
    /\ root_next > Len(dom)
    /\ result' = Fragment(root_views)
    /\ pc' = "done"
    /\ UNCHANGED <<components, regs, entry, source, dom, root_flag, root_next,
                   root_views, stack, stdout, trace>>

\* Node::Comment
ProcessComment ==
    /\ pc = "running" /\ stack # <<>>
    /\ Top.node.kind = "Comment"
    /\ Return(UnitView, <<>>)
    /\ UNCHANGED <<components, regs, entry, source, dom, root_flag, stdout>>

\* Node::Raw
ProcessRawText ==
    /\ pc = "running" /\ stack # <<>>
    /\ Top.node.kind = "Raw"
    /\ Return(ProcessRaw(Top.node, Top.flag), <<>>)
    /\ stdout' = IF Top.node.utf8 THEN stdout
                 ELSE Append(stdout, <<"error parsing raw text">>)
    /\ UNCHANGED <<components, regs, entry, source, dom, root_flag>>

\* a faulty variant: a registered element is finished without its children being visited
ChildrenDoneOrRegistered(frame) ==
    \/ frame.next > Len(frame.node.children)
    \/ Get(components, frame.node.name) # None

\* nodes.top().iter() is exhausted
ChildrenDone(frame) == frame.next > Len(frame.node.children)

\* Node::Tag, the for_each over the children: the recursive call for the next child
ProcessChild ==
    /\ pc = "running" /\ stack # <<>>
    /\ Top.node.kind = "Tag"
    /\ ~ChildrenDone(Top)
    /\ LET child == Top.node.children[Top.next]
           path == Append(Top.path, Top.next)
           flag == ChildFlag(Top.node.name, Top.flag)
       IN  /\ stack' = Append(stack, Frame(child, path, flag))
           /\ trace' = Append(trace, [ev |-> "enter", path |-> path, flag |-> flag])
    /\ UNCHANGED <<components, regs, pc, entry, source, dom, root_flag, root_next,
                   root_views, result, stdout>>

GetEvent(frame) ==
    [ev |-> "get", path |-> frame.path, name |-> frame.node.name,
     found |-> Get(components, frame.node.name) # None]

\* Node::Tag, "Custom elements": the registered closure is called and its view returned
CustomElement ==
    /\ pc = "running" /\ stack # <<>>
    /\ Top.node.kind = "Tag"
    /\ ChildrenDone(Top)
    /\ Get(components, Top.node.name) # None
    /\ LET component == Get(components, Top.node.name).value
           props == MdxComponentProps(Top.node, Top.child_views)
       IN  Return(Invoke(component, props),
                  <<GetEvent(Top),
                    [ev |-> "call", path |-> Top.path, closure |-> component,
                     props |-> props]>>)
    /\ UNCHANGED <<components, regs, entry, source, dom, root_flag, stdout>>

\* Node::Tag, "HTML elements": a tag of the match
HtmlElement ==
    /\ pc = "running" /\ stack # <<>>
    /\ Top.node.kind = "Tag"
    /\ ChildrenDone(Top)
    /\ Get(components, Top.node.name) = None
    /\ Top.node.name \in BuiltinTags
    /\ Return(html_element(Top.node, Top.child_views, Top.node.name),
              <<GetEvent(Top), [ev |-> "html_element", path |-> Top.path]>>)
    /\ UNCHANGED <<components, regs, entry, source, dom, root_flag, stdout>>

\* a faulty variant: the children of an unknown element are kept
UnknownViewKeepsChildren(child_views) == Fragment(child_views)

\* the view of the `_` arm
UnknownView(child_views) == UnitView

\* Node::Tag, the `_` arm of the match
UnknownElement ==
    /\ pc = "running" /\ stack # <<>>
    /\ Top.node.kind = "Tag"
    /\ ChildrenDone(Top)
    /\ Get(components, Top.node.name) = None
    /\ Top.node.name \notin BuiltinTags
    /\ stdout' = Append(stdout, <<"unknown element", Top.node.name>>)
    /\ Return(UnknownView(Top.child_views),
              <<GetEvent(Top), [ev |-> "println", path |-> Top.path, name |-> Top.node.name]>>)
    /\ UNCHANGED <<components, regs, entry, source, dom, root_flag>>

Next ==
    \/ \E name \in RegNames, component \in NoPropsComponents : add(name, component)
    \/ \E name \in RegNames, component \in PropsComponents :
           add_props(name, component, IdentityAdapter)
    \/ \E src \in Sources : Mdx(src)
    \/ MdxCallRoot
    \/ ProcessComment
    \/ ProcessRawText
    \/ ProcessChild
    \/ CustomElement
    \/ HtmlElement
    \/ UnknownElement
    \/ MdxReturn

Spec == Init /\ [][Next]_vars

-----------------------------------------------------------------------------
(* Direct calls of process_element on a raw text node, with either flag *)

Chars == {"a", "b", NL}
Texts == SeqsUpTo(Chars, MaxLen)
RawNodes == {Raw(t) : t \in Texts} \cup {RawInvalid}

InitText ==
    /\ components = <<>>
    /\ regs = <<>>
    /\ pc = "running"
    /\ entry = "process_element"
    /\ source = None
    /\ \E raw \in RawNodes : \E flag \in BOOLEAN :
           /\ dom = <<raw>>
           /\ root_flag = flag
           /\ stack = <<Frame(raw, <<1>>, flag)>>
           /\ trace = <<[ev |-> "enter", path |-> <<1>>, flag |-> flag]>>
    /\ root_next = 1
    /\ root_views = <<>>
    /\ result = None
    /\ stdout = <<>>

NextText == ProcessRawText

SpecText == InitText /\ [][NextText]_vars

-----------------------------------------------------------------------------
(* Reading the history *)

EventsAt(ev, p) == {i \in 1..Len(trace) : trace[i].ev = ev /\ trace[i].path = p}
Event(ev, p) == trace[CHOOSE i \in EventsAt(ev, p) : TRUE]
Entered(p) == EventsAt("enter", p) # {}
Returned(p) == EventsAt("return", p) # {}
\* the view process_element returned for the node at p
ReturnedView(p) == Event("return", p).view
\* the parse_new_lines the node at p was processed with
EnterFlag(p) == Event("enter", p).flag

AllPaths == PathsOf(dom, <<>>)
RawPaths == {p \in AllPaths : NodeAt(dom, p).kind = "Raw"}
TagPaths == {p \in AllPaths : NodeAt(dom, p).kind = "Tag"}
\* the raw texts that were transformed with newline formatting active
FormattedPaths ==
    {p \in RawPaths : Returned(p) /\ EnterFlag(p) /\ NodeAt(dom, p).utf8}

\* the newline at i has a character other than a newline right before and after it
Flanked(t, i) ==
    /\ t[i] = NL
    /\ 1 < i /\ i < Len(t)
    /\ t[i - 1] # NL /\ t[i + 1] # NL

\* t with each flanked newline replaced by the break marker
BreaksAtFlanked(t) ==
    IF t = <<>> THEN <<>>
    ELSE [i \in 1..Len(t) |-> IF Flanked(t, i) THEN BR ELSE t[i]]

-----------------------------------------------------------------------------
(* C1 *)

\* C1: a text transformed with newline formatting active has every newline that is
\* flanked by non-newline content on both sides replaced by the break marker,
\* "a\nb\nc" included.
C1_EveryFlankedNewlineBecomesBreak ==
    \A p \in FormattedPaths :
        ReturnedView(p) = TextView(BreaksAtFlanked(NodeAt(dom, p).text))

-----------------------------------------------------------------------------
(* C2 *)

\* C2: a text transformed with newline formatting active that holds no newline
\* flanked by content on both sides comes out character for character.
C2_UnflankedTextUnchanged ==
    \A p \in FormattedPaths :
        LET t == NodeAt(dom, p).text
        IN  (\A i \in 1..Len(t) : ~Flanked(t, i)) => ReturnedView(p) = TextView(t)

\* a blank-line separator, leading and trailing newlines, transformed and unchanged
C2_Witness ==
    /\ pc = "done"
    /\ <<1>> \in FormattedPaths
    /\ dom[1].text = <<NL, "a", NL, NL, "b">>
    /\ result = TextView(<<NL, "a", NL, NL, "b">>)

-----------------------------------------------------------------------------
(* C3 *)

\* an ancestor element of the node at p is a code or a pre
HasPreformattedAncestor(p) ==
    \E k \in 1..(Len(p) - 1) : NodeAt(dom, SubSeq(p, 1, k)).name \in {"code", "pre"}

\* C3: in a render started by Mdx, a text is transformed with newline formatting
\* active exactly when none of its ancestors is a code or pre element, at any depth
\* and whether or not components intercept the elements above it.
C3_FormattingIffNoPreformattedAncestor ==
    entry = "Mdx" =>
        \A p \in RawPaths :
            /\ Entered(p) => (EnterFlag(p) <=> ~HasPreformattedAncestor(p))
            /\ Returned(p) =>
                   ReturnedView(p) = ProcessRaw(NodeAt(dom, p), ~HasPreformattedAncestor(p))

\* a text three levels below a code element that a component intercepts, with
\* another component between them, has kept its newline
C3_Witness ==
    /\ entry = "Mdx"
    /\ Get(components, "code") # None /\ Get(components, "Widget") # None
    /\ Len(dom) = 1 /\ dom[1].kind = "Tag" /\ dom[1].name = "code"
    /\ Returned(<<1>>)
    /\ <<1, 1, 1, 1>> \in RawPaths
    /\ NodeAt(dom, <<1, 1>>).name = "Widget"
    /\ NodeAt(dom, <<1, 1, 1>>).name = "div"
    /\ ReturnedView(<<1, 1, 1, 1>>) = TextView(T_ab)

-----------------------------------------------------------------------------
(* C6 *)

\* the positions in the history of the registrations made under name
RegsOf(name) == {i \in 1..Len(regs) : regs[i].name = name}
LastRegOf(name) == regs[CHOOSE i \in RegsOf(name) : \A j \in RegsOf(name) : j <= i]

\* names looked up: the registered ones, one in another case, one never registered
LookupNames == RegNames \cup {"widget", "Code", "p"}

\* C6: get(name) is the closure of the latest registration under exactly that name,
\* and nothing for a name never registered; registering again is no error.
C6_GetReturnsLatestRegistration ==
    /\ \A name \in LookupNames :
           Get(components, name) =
               (IF RegsOf(name) = {} THEN None ELSE Some(LastRegOf(name).closure))
    /\ source = None => pc = "idle"

\* Widget registered twice: the second closure is the one found, and neither the
\* entry of code nor the lower-case name is touched
C6_Witness ==
    /\ Len(regs) >= 2
    /\ regs[1] = [name |-> "Widget", closure |-> AddClosure("Hello")]
    /\ regs[2] = [name |-> "Widget",
                  closure |-> AddPropsClosure("Wrap", IdentityAdapter)]
    /\ Get(components, "Widget") = Some(AddPropsClosure("Wrap", IdentityAdapter))
    /\ Get(components, "widget") = None
    /\ Get(components, "code") = None

-----------------------------------------------------------------------------
(* C7 *)

\* the source given to Mdx makes one of the two parsers fail
ParserFails ==
    source # None /\ (source.frontmatter = "malformed" \/ ~source.html_ok)

\* C7 as stated: the failure reaches the caller as a failure result, with no view
\* produced and no node transformed.
C7_FailureIsAResult ==
    ParserFails =>
        /\ result.kind = "Err"
        /\ root_views = <<>>
        /\ trace = <<>>

\* C7 amended: the failure is a panic of Mdx (expect), not a value returned to the
\* caller; no view is produced and no node is transformed before it.
C7_FailureIsAPanic ==
    ParserFails =>
        /\ pc = "panicked"
        /\ result \in {Panic("invalid mdx"), Panic("invalid html")}
        /\ (source.frontmatter = "malformed" => result = Panic("invalid mdx"))
        /\ root_views = <<>>
        /\ stack = <<>>
        /\ trace = <<>>
        /\ stdout = <<>>

\* Mdx has panicked on HTML that did not parse, on a registry that holds a component
C7_Witness ==
    /\ ParserFails
    /\ pc = "panicked"
    /\ result = Panic("invalid html")
    /\ components # <<>>

-----------------------------------------------------------------------------
(* The view of a node by structural recursion, for comparison with the run *)

RECURSIVE ViewOf(_, _)
\* process_element(node, .., parse_new_lines) against the registry `components`
ViewOf(node, parse_new_lines) ==
    IF node.kind = "Comment" THEN UnitView
    ELSE IF node.kind = "Raw" THEN ProcessRaw(node, parse_new_lines)
    ELSE LET flag == ChildFlag(node.name, parse_new_lines)
             child_views ==
                 IF node.children = <<>> THEN <<>>
                 ELSE [i \in 1..Len(node.children) |-> ViewOf(node.children[i], flag)]
             component == Get(components, node.name)
         IN  IF component # None
             THEN Invoke(component.value, MdxComponentProps(node, child_views))
             ELSE IF node.name \in BuiltinTags
                  THEN html_element(node, child_views, node.name)
                  ELSE UnknownView(child_views)

\* the views process_element returned for the children of the element at p, in
\* document order
ChildViews(p) ==
    LET n == Len(NodeAt(dom, p).children)
    IN  IF n = 0 THEN <<>> ELSE [i \in 1..n |-> ReturnedView(Append(p, i))]
RootViews ==
    IF dom = <<>> THEN <<>> ELSE [i \in 1..Len(dom) |-> ReturnedView(<<i>>)]

\* the class tokens read off the value: the k-th maximal run of non-space characters
RunStarts(v) == {i \in 1..Len(v) : v[i] # SP /\ (i = 1 \/ v[i - 1] = SP)}
RunEnds(v) == {i \in 1..Len(v) : v[i] # SP /\ (i = Len(v) \/ v[i + 1] = SP)}
Kth(S, k) == CHOOSE x \in S : Cardinality({y \in S : y < x}) = k - 1
RunTokens(v) ==
    IF RunStarts(v) = {} THEN <<>>
    ELSE [k \in 1..Cardinality(RunStarts(v)) |->
              SubSeq(v, Kth(RunStarts(v), k), Kth(RunEnds(v), k))]
ClassTokens(attributes) ==
    IF attributes.class = None THEN <<>> ELSE RunTokens(attributes.class.value)

\* out is the tokens of v with exactly one space between neighbours
SingleSpaced(out, v) ==
    /\ RunTokens(out) = RunTokens(v)
    /\ Len(out) > 0 => out[1] # SP /\ out[Len(out)] # SP
    /\ \A i \in 1..(Len(out) - 1) : ~(out[i] = SP /\ out[i + 1] = SP)

\* the attributes of the source element, each with its optional value
SourceAttrNames(attributes) ==
    DOMAIN attributes.raw
        \cup (IF attributes.id = None THEN {} ELSE {"id"})
        \cup (IF attributes.class = None THEN {} ELSE {"class"})
SourceAttr(attributes, k) ==
    IF k = "id" THEN attributes.id
    ELSE IF k = "class" THEN attributes.class
    ELSE attributes.raw[k]

RegisteredPaths == {p \in TagPaths : NodeAt(dom, p).name \in DOMAIN components}
UnknownPaths ==
    {p \in TagPaths : /\ NodeAt(dom, p).name \notin DOMAIN components
                      /\ NodeAt(dom, p).name \notin BuiltinTags}
BuiltinPaths == TagPaths \ (RegisteredPaths \cup UnknownPaths)

-----------------------------------------------------------------------------
(* C4 *)

\* C4: an element whose tag is registered has its closure called exactly once, with
\* id, the class tokens in order, every attribute with its optional value, and a
\* producer of the views of its children; the closure's view is the node's view and
\* html_element is not applied, also for a name that is a built-in tag.
C4_RegisteredTagCallsComponentOnce ==
    \A p \in TagPaths :
        LET node == NodeAt(dom, p)
        IN  IF p \notin RegisteredPaths
            THEN EventsAt("call", p) = {}
            ELSE Returned(p) =>
                 /\ Cardinality(EventsAt("call", p)) = 1
                 /\ EventsAt("html_element", p) = {}
                 /\ LET call == Event("call", p)
                        props == call.props
                    IN  /\ call.closure = components[node.name]
                        /\ props.id = node.attributes.id
                        /\ props.classes = ClassTokens(node.attributes)
                        /\ DOMAIN props.attributes = SourceAttrNames(node.attributes)
                        /\ \A k \in DOMAIN props.attributes :
                               props.attributes[k] = SourceAttr(node.attributes, k)
                        /\ props.children.yields = Fragment(ChildViews(p))
                        /\ ReturnedView(p) = Invoke(call.closure, props)
                        /\ ReturnedView(p).kind = "Component"

\* a code element with id "a" and class "x  y" went to the component registered
\* under code, with its span child built and handed over
C4_Witness ==
    /\ <<1>> \in RegisteredPaths
    /\ dom[1].name = "code"
    /\ Returned(<<1>>)
    /\ Event("call", <<1>>).props.id = Some(<<"a">>)
    /\ Event("call", <<1>>).props.classes = <<(<<"x">>), (<<"y">>)>>
    /\ Event("call", <<1>>).props.attributes["hidden"] = None
    /\ Len(Event("call", <<1>>).props.children.yields.nodes) = 1
    /\ Event("call", <<1>>).props.children.yields.nodes[1].kind = "Element"
    /\ ReturnedView(<<1>>).component = "Wrap"

-----------------------------------------------------------------------------
(* C5 *)

Parent(p) == SubSeq(p, 1, Len(p) - 1)
Siblings(p) == {q \in AllPaths : Len(q) = Len(p) /\ Parent(q) = Parent(p) /\ q # p}
PrintlnEvents == SelectSeq(trace, LAMBDA e : e.ev = "println")

\* the view for the node at q is where the parent of q hands on its children
InParentOutput(q) ==
    IF Len(q) = 1 THEN result.nodes[q[1]] = ReturnedView(q)
    ELSE IF Parent(q) \in BuiltinPaths
         THEN ReturnedView(Parent(q)).children[q[Len(q)]] = ReturnedView(q)
    ELSE IF Parent(q) \in RegisteredPaths
         THEN Event("call", Parent(q)).props.children.yields.nodes[q[Len(q)]]
                  = ReturnedView(q)
    ELSE TRUE

\* C5: an element neither registered nor built in gives the empty view, its children
\* dropped, and one diagnostic; the render goes on: every sibling, before and after,
\* is transformed and handed on by the parent as the view of that sibling alone.
C5_UnknownTagIsEmptyAndRenderGoesOn ==
    /\ (source # None /\ ~ParserFails) => pc \in {"running", "done"}
    /\ Len(stdout) = Len(PrintlnEvents)
    /\ \A k \in 1..Len(stdout) : stdout[k] = <<"unknown element", PrintlnEvents[k].name>>
    /\ \A p \in TagPaths :
           IF p \in UnknownPaths
           THEN Returned(p) =>
                    /\ ReturnedView(p) = UnitView
                    /\ Cardinality(EventsAt("println", p)) = 1
           ELSE EventsAt("println", p) = {}
    /\ pc = "done" =>
           \A p \in UnknownPaths :
               /\ InParentOutput(p)
               /\ \A q \in Siblings(p) :
                      /\ Returned(q)
                      /\ ReturnedView(q) = ViewOf(NodeAt(dom, q), ~HasPreformattedAncestor(q))
                      /\ InParentOutput(q)

\* a render has finished with an unknown element between a text and a span: one
\* diagnostic, an empty view in the middle, both neighbours rendered
C5_Witness ==
    /\ pc = "done"
    /\ Len(dom) = 3
    /\ UnknownPaths = {<<2>>}
    /\ dom[2].children # <<>>
    /\ stdout = <<(<<"unknown element", "foo-bar">>)>>
    /\ result.nodes[1] = TextView(<<"a", BR, "b">>)
    /\ result.nodes[2] = UnitView
    /\ result.nodes[3].kind = "Element" /\ result.nodes[3].tag = "span"

-----------------------------------------------------------------------------
(* C8 *)

\* C8: a built-in element carries exactly the source attributes that have a value,
\* its id is the source id, and with at least one class token its class is the
\* tokens in order with single spaces, whatever the spacing of the source.
C8_BuiltinElementAttributes ==
    \A p \in BuiltinPaths :
        Returned(p) =>
            LET a == NodeAt(dom, p).attributes
                v == ReturnedView(p)
                present == {k \in SourceAttrNames(a) : SourceAttr(a, k) # None}
            IN  /\ EventsAt("html_element", p) # {}
                /\ v.kind = "Element" /\ v.tag = NodeAt(dom, p).name
                /\ DOMAIN v.attrs = present
                /\ \A k \in present \ {"class"} : v.attrs[k] = SourceAttr(a, k).value
                /\ "class" \in present =>
                       IF ClassTokens(a) # <<>>
                       THEN SingleSpaced(v.attrs["class"], a.class.value)
                       ELSE v.attrs["class"] = a.class.value

\* a p with id "a", class "x  y", a title and a valueless hidden was built: class is
\* "x y" and hidden is not set
C8_Witness ==
    /\ <<1>> \in BuiltinPaths /\ Returned(<<1>>)
    /\ dom[1].name = "p"
    /\ dom[1].attributes.class = Some(<<"x", SP, SP, "y">>)
    /\ "hidden" \in DOMAIN dom[1].attributes.raw
    /\ ReturnedView(<<1>>).attrs["class"] = <<"x", SP, "y">>
    /\ DOMAIN ReturnedView(<<1>>).attrs = {"id", "class", "title"}

-----------------------------------------------------------------------------
(* C9 *)

EnterIndex(p) == CHOOSE i \in EventsAt("enter", p) : TRUE

\* C9: the children of an element are transformed in document order and the i-th
\* view handed to the component's producer or appended to the built-in element is the
\* view of the i-th child, comments and unknown tags as empty views in their place;
\* the fragment of Mdx has the view of the i-th root node as its i-th entry.
C9_DocumentOrderPreserved ==
    /\ \A p \in AllPaths :
           Returned(p) =>
               /\ ReturnedView(p) = ViewOf(NodeAt(dom, p), EnterFlag(p))
               /\ NodeAt(dom, p).kind = "Comment" => ReturnedView(p) = UnitView
    /\ \A p \in TagPaths :
           /\ \A i, j \in 1..Len(NodeAt(dom, p).children) :
                  (i < j /\ Entered(Append(p, j))) =>
                      /\ Returned(Append(p, i))
                      /\ EnterIndex(Append(p, i)) < EnterIndex(Append(p, j))
           /\ Returned(p) =>
                  /\ \A i \in 1..Len(NodeAt(dom, p).children) : Returned(Append(p, i))
                  /\ p \in RegisteredPaths =>
                         Event("call", p).props.children.yields = Fragment(ChildViews(p))
                  /\ p \in BuiltinPaths => ReturnedView(p).children = ChildViews(p)
    /\ \A i, j \in 1..Len(dom) :
           (i < j /\ Entered(<<j>>)) =>
               Returned(<<i>>) /\ EnterIndex(<<i>>) < EnterIndex(<<j>>)
    /\ (pc = "done" /\ entry = "Mdx") =>
           /\ \A i \in 1..Len(dom) : Returned(<<i>>)
           /\ result = Fragment(RootViews)

\* a finished render of a comment, a text and a span at the root level, each in
\* its place, under a registry that holds a component
C9_Witness ==
    /\ pc = "done" /\ entry = "Mdx"
    /\ components # <<>>
    /\ Len(dom) = 3
    /\ dom[1] = Comment /\ dom[2] = Raw(T_ab)
    /\ dom[3].kind = "Tag" /\ dom[3].name = "span"
    /\ result.nodes[1] = UnitView
    /\ result.nodes[2] = TextView(<<"a", BR, "b">>)
    /\ result.nodes[3].kind = "Element"
    /\ result.nodes[3].children = <<TextView(T_b)>>

-----------------------------------------------------------------------------
(* C10 *)

\* C10: every node is transformed exactly once per render, and the whole subtree of
\* an element before the registry lookup and the built-in mapping of the element,
\* also when the result is dropped (an unknown tag, a component that never asks for
\* its children): the diagnostics of unknown descendants come before their
\* unknown ancestor's.
C10_EachNodeOncePostOrder ==
    /\ \A i \in 1..Len(trace) : trace[i].path \in AllPaths
    /\ \A p \in AllPaths :
           /\ Cardinality(EventsAt("enter", p)) <= 1
           /\ Cardinality(EventsAt("return", p)) <= 1
           /\ Cardinality(EventsAt("get", p)) <= 1
    /\ (pc = "done" /\ entry = "Mdx") =>
           \A p \in AllPaths :
               /\ Cardinality(EventsAt("enter", p)) = 1
               /\ Cardinality(EventsAt("return", p)) = 1
    /\ \A i \in 1..Len(trace) :
           trace[i].ev \in {"get", "call", "html_element", "println"} =>
               \A q \in AllPaths :
                   IsProperPrefix(trace[i].path, q) =>
                       \E j \in 1..(i - 1) : trace[j].ev = "return" /\ trace[j].path = q
    /\ \A i \in 1..Len(trace) :
           trace[i].ev = "println" =>
               \A q \in UnknownPaths :
                   IsProperPrefix(trace[i].path, q) =>
                       \E j \in 1..(i - 1) : trace[j].ev = "println" /\ trace[j].path = q

\* a component that takes no props sits over an unknown element over another: both
\* diagnostics are out, the inner one first, and the component's view is the result
C10_Witness ==
    /\ pc = "done"
    /\ Len(dom) = 1 /\ dom[1].kind = "Tag" /\ dom[1].name = "Widget"
    /\ Get(components, "Widget") = Some(AddClosure("Hello"))
    /\ UnknownPaths = {<<1, 1>>, <<1, 1, 1>>}
    /\ stdout = <<(<<"unknown element", "x-y">>), (<<"unknown element", "foo-bar">>)>>
    /\ result = Fragment(<<[kind |-> "Component", component |-> "Hello"]>>)

====
